---- MODULE Spec2Model ----
(***************************************************************************)
(* A model of simple_svg_1.0.0.hpp: the geometry value types (Point, Rect), *)
(* the Layout coordinate conversion, the style fragments (Color, Fill,      *)
(* Stroke, Font), the Shape variants and the Document that accumulates      *)
(* their markup and their bounding boxes.                                   *)
(*                                                                          *)
(* Coordinates are C++ doubles in the source.  The model computes with      *)
(* integers, on which every +, -, * and comparison of the source is exact;  *)
(* the halving in the Circle and Elipse constructors is applied to even     *)
(* sample values only, where it is exact too.  Floating-point rounding is   *)
(* outside the model.                                                       *)
(*                                                                          *)
(* Text (std::string) is a sequence of tokens: every string literal of the  *)
(* source is one token, and a number is written as the tokens of its        *)
(* decimal representation.                                                  *)
(***************************************************************************)
EXTENDS Integers, Sequences, FiniteSets, TLC

VARIABLES
    rect,        \* the Rect object under include() calls
    rectStart,   \* the value the constructor gave it
    included,    \* the arguments of the include() calls made so far, in order
    shape,       \* the Shape object under construction
    ret,         \* the last call made on the shape and what it returned
    nOffsets,    \* the number of offset() calls made on the shape
    doc,         \* the Document object
    twin,        \* a second Document, constructed with another Layout and fed the same appends
    appended,    \* the shapes appended to the Document, with the box MinMax() returned
    docOp,       \* the last call made on the Document
    out,         \* the text the last toString() call returned, and after how many appends
    file,        \* the content of the file named file_name
    alive,       \* FALSE once the process was killed by an invalid memory access
    layout,      \* the Layout handed to the translate functions
    tr,          \* the last translate call and what it returned
    style,       \* the Stroke object under serialization
    frag         \* the last call made on the style object and what it returned

rectVars == <<rect, rectStart, included>>
shapeVars == <<shape, ret, nOffsets>>
docVars == <<doc, twin, appended, docOp, out, file, alive>>
layoutVars == <<layout, tr>>
styleVars == <<style, frag>>
vars == <<rect, rectStart, included, shape, ret, nOffsets, doc, twin, appended, docOp,
          out, file, alive, layout, tr, style, frag>>

\* The value of the variables of the components a specification does not run.
Idle == "idle"

RectIdle == rect = Idle /\ rectStart = Idle /\ included = Idle
ShapeIdle == shape = Idle /\ ret = Idle /\ nOffsets = Idle
DocIdle ==
    /\ doc = Idle /\ twin = Idle /\ appended = Idle /\ docOp = Idle
    /\ out = Idle /\ file = Idle /\ alive = Idle
LayoutIdle == layout = Idle /\ tr = Idle
StyleIdle == style = Idle /\ frag = Idle

-----------------------------------------------------------------------------
(* Bounds of the model *)

\* The magnitude of the sample coordinates handed to Rect.
MaxCoord == 1
\* The number of include() calls made on one Rect.
MaxIncl == 3

Coords == {0 - MaxCoord, 0, MaxCoord}

-----------------------------------------------------------------------------
(* Generic helpers *)

Last(s) == s[Len(s)]

RECURSIVE Concat(_)
\* The concatenation of a sequence of sequences.
Concat(ss) == IF ss = <<>> THEN <<>> ELSE Head(ss) \o Concat(Tail(ss))

\* The permutations of 1..n, as functions.
Perms(n) == {f \in [1..n -> 1..n] : \A i, j \in 1..n : f[i] = f[j] => i = j}

-----------------------------------------------------------------------------
(* Point, Rect *)

Point(x, y) == [x |-> x, y |-> y]

Points == {Point(x, y) : x \in Coords, y \in Coords}

\* Rect(): both corners at the origin.
Rect_default == [minPt |-> Point(0, 0), maxPt |-> Point(0, 0)]

\* Rect(p, w, h)
Rect_new(p, w, h) == [minPt |-> p, maxPt |-> Point(p.x + w, p.y + h)]

Rect_width(r) == r.maxPt.x - r.minPt.x

Rect_height(r) == r.maxPt.y - r.minPt.y

\* A plausible slip: a point beyond maxPt.x replaces maxPt as a whole.
Rect_include_overwrite(r, p) ==
    LET minx == IF p.x < r.minPt.x THEN p.x ELSE r.minPt.x
        miny == IF p.y < r.minPt.y THEN p.y ELSE r.minPt.y
    IN  [minPt |-> Point(minx, miny),
         maxPt |-> IF p.x > r.maxPt.x THEN p
                   ELSE Point(r.maxPt.x, IF p.y > r.maxPt.y THEN p.y ELSE r.maxPt.y)]

\* A plausible slip: the two tests on maxPt left out.
Rect_include_minOnly(r, p) ==
    LET minx == IF p.x < r.minPt.x THEN p.x ELSE r.minPt.x
        miny == IF p.y < r.minPt.y THEN p.y ELSE r.minPt.y
    IN  [minPt |-> Point(minx, miny), maxPt |-> r.maxPt]

\* Rect::include(Point): four independent tests, one per side.
Rect_include(r, p) ==
    LET minx == IF p.x < r.minPt.x THEN p.x ELSE r.minPt.x
        miny == IF p.y < r.minPt.y THEN p.y ELSE r.minPt.y
        maxx == IF p.x > r.maxPt.x THEN p.x ELSE r.maxPt.x
        maxy == IF p.y > r.maxPt.y THEN p.y ELSE r.maxPt.y
    IN  [minPt |-> Point(minx, miny), maxPt |-> Point(maxx, maxy)]

\* A variant of include(Rect) that forgets the receiver's own corners.
Rect_includeRect_replace(r, q) == q

\* Rect::include(Rect): include(r.minPt); include(r.maxPt).
Rect_includeRect(r, q) == Rect_include(Rect_include(r, q.minPt), q.maxPt)

IsPoint(a) == "x" \in DOMAIN a

\* One include() call, on either overload.
Rect_includeAny(r, a) == IF IsPoint(a) THEN Rect_include(r, a) ELSE Rect_includeRect(r, a)

\* The Rects the model constructs: Rect() and Rect(p, w, h), negative extents included.
RectExtents == {<<0, 0>>, <<MaxCoord, MaxCoord>>, <<0 - MaxCoord, 0 - MaxCoord>>,
                <<MaxCoord, 0 - MaxCoord>>}
RectCorners == {Point(0, 0), Point(MaxCoord, 0 - MaxCoord)}
RectStarts ==
    {Rect_default} \cup {Rect_new(p, e[1], e[2]) : p \in RectCorners, e \in RectExtents}

\* The Rects handed to include(Rect).
RectArgs == {Rect_new(Point(0 - MaxCoord, 0), MaxCoord, 0 - MaxCoord),
             Rect_new(Point(MaxCoord, MaxCoord), 0 - MaxCoord, 0)}

-----------------------------------------------------------------------------
(* A Rect under a sequence of include() calls *)

RectInit ==
    /\ rect \in RectStarts
    /\ rectStart = rect
    /\ included = <<>>
    /\ ShapeIdle /\ DocIdle /\ LayoutIdle /\ StyleIdle

\* rect.include(p)
IncludePoint ==
    /\ Len(included) < MaxIncl
    /\ \E p \in Points :
        /\ rect' = Rect_include(rect, p)
        /\ included' = Append(included, p)
    /\ UNCHANGED <<rectStart, shapeVars, docVars, layoutVars, styleVars>>

\* rect.include(q)
IncludeRect ==
    /\ Len(included) < MaxIncl
    /\ \E q \in RectArgs :
        /\ rect' = Rect_includeRect(rect, q)
        /\ included' = Append(included, q)
    /\ UNCHANGED <<rectStart, shapeVars, docVars, layoutVars, styleVars>>

RectNext == IncludePoint \/ IncludeRect

SpecRect == RectInit /\ [][RectNext]_vars

SetMin(S) == CHOOSE m \in S : \A n \in S : m <= n
SetMax(S) == CHOOSE m \in S : \A n \in S : m >= n

RECURSIVE FoldInclude(_, _)
\* The Rect after the include() calls with the arguments of sequence as, in order.
FoldInclude(r, as) ==
    IF as = <<>> THEN r ELSE FoldInclude(Rect_includeAny(r, Head(as)), Tail(as))

\* The permutations of the positions of every length of history the model reaches.
PermTable == [n \in 0..MaxIncl |-> Perms(n)]

\* Sequence s rearranged by permutation f.
Permuted(s, f) == [i \in 1..Len(s) |-> s[f[i]]]

OnlyPointsIncluded == \A i \in 1..Len(included) : IsPoint(included[i])

\* C2 (as claimed): starting from a freshly constructed Rect, after a non-empty
\* sequence of include(Point) calls minPt is the per-axis minimum and maxPt the
\* per-axis maximum of exactly the points that were included.
C2_MinMaxOfIncludedPoints ==
    (rectStart = Rect_default /\ included # <<>> /\ OnlyPointsIncluded) =>
        LET xs == {included[i].x : i \in 1..Len(included)}
            ys == {included[i].y : i \in 1..Len(included)}
        IN  /\ rect.minPt = Point(SetMin(xs), SetMin(ys))
            /\ rect.maxPt = Point(SetMax(xs), SetMax(ys))

-----------------------------------------------------------------------------
(* Text *)

DigitChar == <<"0", "1", "2", "3", "4", "5", "6", "7", "8", "9">>

RECURSIVE NatDigits(_)
\* The decimal digits of a natural number, most significant first.
NatDigits(n) ==
    IF n < 10 THEN <<DigitChar[n + 1]>> ELSE NatDigits(n \div 10) \o <<DigitChar[(n % 10) + 1]>>

\* operator<< of a stream on a number with an integer value: "-3", "0", "10"
\* (the default format; below a million no exponent is written).
StreamNum(n) == IF n < 0 THEN <<"-">> \o NatDigits(0 - n) ELSE NatDigits(n)

\* std::to_string(double) on an integer value: "%f", six decimals.
to_string(n) == StreamNum(n) \o <<".", "0", "0", "0", "0", "0", "0">>

\* attribute(attribute_name, value, unit): name="valueunit" and a blank.
attribute(attribute_name, value, unit) ==
    <<attribute_name, "=\"">> \o value \o unit \o <<"\" ">>

elemStart(element_name) == <<"\t<", element_name, " ">>

elemEnd(element_name) == <<"</", element_name, ">\n">>

emptyElemEnd == <<"/>\n">>

-----------------------------------------------------------------------------
(* Color, Fill, Stroke, Font *)

ColorDefaults ==
    {"Transparent", "Aqua", "Black", "Blue", "Brown", "Cyan", "Fuchsia", "Green", "Lime",
     "Magenta", "Orange", "Purple", "Red", "Silver", "White", "Yellow"}

\* Color(r, g, b)
Color_rgb(r, g, b) == [transparent |-> FALSE, red |-> r, green |-> g, blue |-> b]

\* Color(Defaults): the switch over the named colours; any other value is transparent.
Color_named(color) ==
    CASE color = "Aqua" -> Color_rgb(0, 255, 255)
      [] color = "Black" -> Color_rgb(0, 0, 0)
      [] color = "Blue" -> Color_rgb(0, 0, 255)
      [] color = "Brown" -> Color_rgb(165, 42, 42)
      [] color = "Cyan" -> Color_rgb(0, 255, 255)
      [] color = "Fuchsia" -> Color_rgb(255, 0, 255)
      [] color = "Green" -> Color_rgb(0, 128, 0)
      [] color = "Lime" -> Color_rgb(0, 255, 0)
      [] color = "Magenta" -> Color_rgb(255, 0, 255)
      [] color = "Orange" -> Color_rgb(255, 165, 0)
      [] color = "Purple" -> Color_rgb(128, 0, 128)
      [] color = "Red" -> Color_rgb(255, 0, 0)
      [] color = "Silver" -> Color_rgb(192, 192, 192)
      [] color = "White" -> Color_rgb(255, 255, 255)
      [] color = "Yellow" -> Color_rgb(255, 255, 0)
      [] OTHER -> [transparent |-> TRUE, red |-> 0, green |-> 0, blue |-> 0]

Color_toString(c) ==
    IF c.transparent THEN <<"transparent">>
    ELSE <<"rgb(">> \o StreamNum(c.red) \o <<",">> \o StreamNum(c.green) \o <<",">>
         \o StreamNum(c.blue) \o <<")">>

\* Fill(color); the default argument is Color::Transparent.
Fill_new(color) == [class |-> "Fill", color |-> color]

\* A plausible variant: no fragment for the transparent colour.
Fill_toString_skipTransparent(f) ==
    IF f.color.transparent THEN <<>> ELSE attribute("fill", Color_toString(f.color), <<>>)

Fill_toString(f) == attribute("fill", Color_toString(f.color), <<>>)

\* Stroke(width, color, nonScalingStroke); the defaults are -1, Transparent, false.
Stroke_new(width, color, nonScalingStroke) ==
    [class |-> "Stroke", width |-> width, color |-> color, nonScaling |-> nonScalingStroke]

Stroke_default == Stroke_new(0 - 1, Color_named("Transparent"), FALSE)

\* A plausible slip: width 0 taken for the invalid width too.
Stroke_toString_zeroInvalid(s) ==
    IF s.width <= 0 THEN <<>>
    ELSE attribute("stroke-width", StreamNum(s.width), <<>>)
         \o attribute("stroke", Color_toString(s.color), <<>>)
         \o (IF s.nonScaling THEN attribute("vector-effect", <<"non-scaling-stroke">>, <<>>)
             ELSE <<>>)

Stroke_toString(s) ==
    IF s.width < 0 THEN <<>>
    ELSE attribute("stroke-width", StreamNum(s.width), <<>>)
         \o attribute("stroke", Color_toString(s.color), <<>>)
         \o (IF s.nonScaling THEN attribute("vector-effect", <<"non-scaling-stroke">>, <<>>)
             ELSE <<>>)

\* Font(size, family); the defaults are 12 and "Verdana".
Font_new(size, family) == [class |-> "Font", size |-> size, family |-> family]

Font_toString(f) ==
    attribute("font-size", StreamNum(f.size), <<>>) \o attribute("font-family", <<f.family>>, <<>>)

-----------------------------------------------------------------------------
(* The style objects, serialized on their own *)

\* The largest stroke width and font size the model constructs.
MaxWidth == 2

SampleColors ==
    {Color_named(c) : c \in ColorDefaults} \cup {Color_rgb(1, 20, 255)}

Strokes ==
    {Stroke_new(w, c, n) : w \in (0 - MaxWidth)..MaxWidth, c \in SampleColors, n \in BOOLEAN}

Fills == {Fill_new(c) : c \in SampleColors}

Fonts == {Font_new(sz, fam) : sz \in 0..MaxWidth, fam \in {"Verdana", "Arial"}}

StyleInit ==
    /\ style \in Strokes \cup Fills \cup Fonts
    /\ frag = [op |-> "new"]
    /\ RectIdle /\ ShapeIdle /\ DocIdle /\ LayoutIdle

\* stroke.toString()
StrokeToString ==
    /\ style.class = "Stroke"
    /\ frag' = [op |-> "toString", val |-> Stroke_toString(style)]
    /\ UNCHANGED <<style, rectVars, shapeVars, docVars, layoutVars>>

\* fill.toString()
FillToString ==
    /\ style.class = "Fill"
    /\ frag' = [op |-> "toString", val |-> Fill_toString(style)]
    /\ UNCHANGED <<style, rectVars, shapeVars, docVars, layoutVars>>

\* font.toString()
FontToString ==
    /\ style.class = "Font"
    /\ frag' = [op |-> "toString", val |-> Font_toString(style)]
    /\ UNCHANGED <<style, rectVars, shapeVars, docVars, layoutVars>>

StyleNext == StrokeToString \/ FillToString \/ FontToString

SpecStyle == StyleInit /\ [][StyleNext]_vars

\* The positions in text t where an attribute called name starts.
AttrStarts(t, name) == {i \in 1..(Len(t) - 1) : t[i] = name /\ t[i + 1] = "=\""}

\* The value of the attribute starting at position i of text t: the tokens up
\* to the closing quote.
AttrValueAt(t, i) ==
    LET close == CHOOSE k \in (i + 2)..Len(t) :
                    t[k] = "\" " /\ \A m \in (i + 2)..(k - 1) : t[m] # "\" "
    IN  SubSeq(t, i + 2, close - 1)

\* Text t carries exactly one attribute called name, and its value is v.
HasAttr(t, name, v) ==
    /\ Cardinality(AttrStarts(t, name)) = 1
    /\ \A i \in AttrStarts(t, name) : AttrValueAt(t, i) = v

\* C9: Stroke::toString returns the empty fragment exactly when the width is
\* negative; a Stroke of width 0 gives a non-empty fragment that carries
\* stroke-width 0 and the stroke colour.
C9_StrokeEmptyIffNegativeWidth ==
    (style.class = "Stroke" /\ frag.op = "toString") =>
        /\ (frag.val = <<>>) <=> (style.width < 0)
        /\ (style.width = 0) =>
              /\ frag.val # <<>>
              /\ HasAttr(frag.val, "stroke-width", <<"0">>)
              /\ HasAttr(frag.val, "stroke", Color_toString(style.color))

\* A width 0 stroke of an opaque colour was serialized.
C9_Witness ==
    /\ style.class = "Stroke" /\ frag.op = "toString"
    /\ style.width = 0 /\ ~style.color.transparent
    /\ frag.val # <<>>

\* The default Stroke (width -1) was serialized to nothing.
C9_WitnessSentinel ==
    /\ style = Stroke_default /\ frag.op = "toString" /\ frag.val = <<>>

-----------------------------------------------------------------------------
(* Layout and the conversion from user space to SVG native space *)

\* Dimensions(width, height); Dimensions(combined) is Dimensions(combined, combined).
Dimensions(width, height) == [width |-> width, height |-> height]

Origins == {"TopLeft", "BottomLeft", "TopRight", "BottomRight"}

\* Layout(dimensions, origin, scale, origin_offset)
Layout_new(dimensions, origin, scale, origin_offset) ==
    [dimensions |-> dimensions, scale |-> scale, origin |-> origin,
     origin_offset |-> origin_offset]

\* Layout(): Dimensions(400, 300), BottomLeft, scale 1, Point(0, 0).
Layout_default == Layout_new(Dimensions(400, 300), "BottomLeft", 1, Point(0, 0))

\* A plausible slip: the x axis flipped on the bottom origins, as the y axis is.
translateX_bottom(x, l) ==
    IF l.origin = "BottomLeft" \/ l.origin = "BottomRight"
    THEN l.dimensions.width - ((x + l.origin_offset.x) * l.scale)
    ELSE (l.origin_offset.x + x) * l.scale

translateX(x, l) ==
    IF l.origin = "BottomRight" \/ l.origin = "TopRight"
    THEN l.dimensions.width - ((x + l.origin_offset.x) * l.scale)
    ELSE (l.origin_offset.x + x) * l.scale

translateY(y, l) ==
    IF l.origin = "BottomLeft" \/ l.origin = "BottomRight"
    THEN l.dimensions.height - ((y + l.origin_offset.y) * l.scale)
    ELSE (l.origin_offset.y + y) * l.scale

translateScale(dimension, l) == dimension * l.scale

\* The largest scale of a Layout of the model.
MaxScale == 2

SampleDimensions == {Dimensions(400, 300), Dimensions(7, 7)}
SampleOffsets == {Point(0, 0), Point(2, 0 - 5)}
SampleScales == {0 - 1} \cup (1..MaxScale)
Layouts ==
    {Layout_new(d, o, sc, off) :
        d \in SampleDimensions, o \in Origins, sc \in SampleScales, off \in SampleOffsets}

\* The coordinates and lengths converted.
UserCoords == {0 - 4, 0, 9}

LayoutInit ==
    /\ layout \in Layouts
    /\ tr = [op |-> "new"]
    /\ RectIdle /\ ShapeIdle /\ DocIdle /\ StyleIdle

TranslateX ==
    /\ \E x \in UserCoords :
        tr' = [op |-> "translateX", arg |-> x, val |-> translateX(x, layout)]
    /\ UNCHANGED <<layout, rectVars, shapeVars, docVars, styleVars>>

TranslateY ==
    /\ \E y \in UserCoords :
        tr' = [op |-> "translateY", arg |-> y, val |-> translateY(y, layout)]
    /\ UNCHANGED <<layout, rectVars, shapeVars, docVars, styleVars>>

TranslateScale ==
    /\ \E d \in UserCoords :
        tr' = [op |-> "translateScale", arg |-> d, val |-> translateScale(d, layout)]
    /\ UNCHANGED <<layout, rectVars, shapeVars, docVars, styleVars>>

LayoutNext == TranslateX \/ TranslateY \/ TranslateScale

SpecLayout == LayoutInit /\ [][LayoutNext]_vars

\* C7: translateX flips the x axis exactly on the right origins, translateY the
\* y axis exactly on the bottom origins, translateScale multiplies by scale;
\* with origin TopLeft, scale 1 and no offset the conversions are the identity.
C7_Translate ==
    LET right == layout.origin \in {"TopRight", "BottomRight"}
        bottom == layout.origin \in {"BottomLeft", "BottomRight"}
        plain == /\ layout.origin = "TopLeft" /\ layout.scale = 1
                 /\ layout.origin_offset = Point(0, 0)
    IN  /\ tr.op = "translateX" =>
              /\ right => tr.val = layout.dimensions.width
                                     - (tr.arg + layout.origin_offset.x) * layout.scale
              /\ ~right => tr.val = (layout.origin_offset.x + tr.arg) * layout.scale
              /\ plain => tr.val = tr.arg
        /\ tr.op = "translateY" =>
              /\ bottom => tr.val = layout.dimensions.height
                                      - (tr.arg + layout.origin_offset.y) * layout.scale
              /\ ~bottom => tr.val = (layout.origin_offset.y + tr.arg) * layout.scale
              /\ plain => tr.val = tr.arg
        /\ tr.op = "translateScale" => tr.val = tr.arg * layout.scale

\* An x coordinate was converted under a layout that flips y but not x.
C7_Witness ==
    /\ tr.op = "translateX" /\ layout.origin = "BottomLeft"
    /\ layout.scale = 2 /\ layout.origin_offset = Point(2, 0 - 5)
    /\ tr.arg = 9 /\ tr.val = 22

-----------------------------------------------------------------------------
(* The Shape variants *)

\* Point += offset, as every offset() does on each point it owns.
Point_add(p, offset) == Point(p.x + offset.x, p.y + offset.y)

\* "x,y " for each point, as the point loops of Polygon, Polyline and Path write it.
RECURSIVE PointList(_)
PointList(points) ==
    IF points = <<>> THEN <<>>
    ELSE StreamNum(Head(points).x) \o <<",">> \o StreamNum(Head(points).y) \o <<" ">>
         \o PointList(Tail(points))

RECURSIVE IncludeAll(_, _)
\* for (auto &pt : points) rtn.include(pt);
IncludeAll(rtn, points) ==
    IF points = <<>> THEN rtn ELSE IncludeAll(Rect_include(rtn, Head(points)), Tail(points))

\* What a MinMax() call can end in: a Rect returned, or the process killed.
Returned(r) == [crashed |-> FALSE, box |-> r]
Crashed == [crashed |-> TRUE, box |-> Rect_default]

\* Circle(center, diameter, fill, stroke)
Circle_new(center, diameter, fill, stroke) ==
    [kind |-> "Circle", fill |-> fill, stroke |-> stroke,
     center |-> center, radius |-> diameter \div 2]

Circle_toString(s) ==
    elemStart("circle") \o attribute("cx", StreamNum(s.center.x), <<>>)
    \o attribute("cy", StreamNum(s.center.y), <<>>)
    \o attribute("r", StreamNum(s.radius), <<>>) \o Fill_toString(s.fill)
    \o Stroke_toString(s.stroke) \o emptyElemEnd

Circle_offset(s, offset) == [s EXCEPT !.center = Point_add(@, offset)]

Circle_MinMax(s) ==
    Rect_new(Point(s.center.x - s.radius, s.center.y - s.radius), s.radius * 2, s.radius * 2)

\* Elipse(center, width, height, fill, stroke)
Elipse_new(center, width, height, fill, stroke) ==
    [kind |-> "Elipse", fill |-> fill, stroke |-> stroke, center |-> center,
     radius_width |-> width \div 2, radius_height |-> height \div 2]

Elipse_toString(s) ==
    elemStart("ellipse") \o attribute("cx", StreamNum(s.center.x), <<>>)
    \o attribute("cy", StreamNum(s.center.y), <<>>)
    \o attribute("rx", StreamNum(s.radius_width), <<>>)
    \o attribute("ry", StreamNum(s.radius_height), <<>>)
    \o Fill_toString(s.fill) \o Stroke_toString(s.stroke) \o emptyElemEnd

Elipse_offset(s, offset) == [s EXCEPT !.center = Point_add(@, offset)]

Elipse_MinMax(s) ==
    Rect_new(Point(s.center.x - s.radius_width, s.center.y - s.radius_height),
             s.radius_width * 2, s.radius_height * 2)

\* Rectangle(edge, width, height, fill, stroke)
Rectangle_new(edge, width, height, fill, stroke) ==
    [kind |-> "Rectangle", fill |-> fill, stroke |-> stroke,
     edge |-> edge, width |-> width, height |-> height]

Rectangle_toString(s) ==
    elemStart("rect") \o attribute("x", StreamNum(s.edge.x), <<>>)
    \o attribute("y", StreamNum(s.edge.y), <<>>)
    \o attribute("width", StreamNum(s.width), <<>>)
    \o attribute("height", StreamNum(s.height), <<>>)
    \o Fill_toString(s.fill) \o Stroke_toString(s.stroke) \o emptyElemEnd

Rectangle_offset(s, offset) == [s EXCEPT !.edge = Point_add(@, offset)]

Rectangle_MinMax(s) == Rect_new(s.edge, s.width, s.height)

\* Line(start_point, end_point, stroke); the fill is Fill().
Line_new(start_point, end_point, stroke) ==
    [kind |-> "Line", fill |-> Fill_new(Color_named("Transparent")), stroke |-> stroke,
     start_point |-> start_point, end_point |-> end_point]

Line_toString(s) ==
    elemStart("line") \o attribute("x1", StreamNum(s.start_point.x), <<>>)
    \o attribute("y1", StreamNum(s.start_point.y), <<>>)
    \o attribute("x2", StreamNum(s.end_point.x), <<>>)
    \o attribute("y2", StreamNum(s.end_point.y), <<>>)
    \o Stroke_toString(s.stroke) \o emptyElemEnd

\* A plausible slip: the end point left where it was.
Line_offset_startOnly(s, offset) == [s EXCEPT !.start_point = Point_add(@, offset)]

Line_offset(s, offset) ==
    [s EXCEPT !.start_point = Point_add(@, offset), !.end_point = Point_add(@, offset)]

Line_MinMax(s) == Rect_include(Rect_new(s.start_point, 0, 0), s.end_point)

\* Polygon(fill, stroke): no points yet.
Polygon_new(fill, stroke) ==
    [kind |-> "Polygon", fill |-> fill, stroke |-> stroke, points |-> <<>>]

\* Polygon::operator<<(point)
Polygon_append(s, point) == [s EXCEPT !.points = Append(@, point)]

Polygon_toString(s) ==
    elemStart("polygon") \o <<"points=\"">> \o PointList(s.points) \o <<"\" ">>
    \o Fill_toString(s.fill) \o Stroke_toString(s.stroke) \o emptyElemEnd

Polygon_offset(s, offset) ==
    [s EXCEPT !.points = [i \in 1..Len(@) |-> Point_add(@[i], offset)]]

Polygon_MinMax(s) ==
    IF s.points = <<>> THEN Rect_default
    ELSE IncludeAll(Rect_new(Head(s.points), 0, 0), s.points)

\* Polyline(points, fill, stroke); Polyline(fill, stroke) has no points yet.
Polyline_new(points, fill, stroke) ==
    [kind |-> "Polyline", fill |-> fill, stroke |-> stroke, points |-> points]

\* Polyline::operator<<(point)
Polyline_append(s, point) == [s EXCEPT !.points = Append(@, point)]

Polyline_toString(s) ==
    elemStart("polyline") \o <<"points=\"">> \o PointList(s.points) \o <<"\" ">>
    \o Fill_toString(s.fill) \o Stroke_toString(s.stroke) \o emptyElemEnd

Polyline_offset(s, offset) ==
    [s EXCEPT !.points = [i \in 1..Len(@) |-> Point_add(@[i], offset)]]

Polyline_MinMax(s) ==
    IF s.points = <<>> THEN Rect_default
    ELSE IncludeAll(Rect_new(Head(s.points), 0, 0), s.points)

\* A plausible slip: a new subpath started whatever the last one holds.
Path_startNewSubPath_always(s) == [s EXCEPT !.paths = Append(@, <<>>)]

\* Path::startNewSubPath
Path_startNewSubPath(s) ==
    IF s.paths = <<>> \/ 0 < Len(Last(s.paths))
    THEN [s EXCEPT !.paths = Append(@, <<>>)]
    ELSE s

\* Path(fill, stroke): the constructor body calls startNewSubPath().
Path_new(fill, stroke) ==
    Path_startNewSubPath([kind |-> "Path", fill |-> fill, stroke |-> stroke, paths |-> <<>>])

\* Path::operator<<(point): paths.back().push_back(point)
Path_append(s, point) == [s EXCEPT !.paths[Len(s.paths)] = Append(@, point)]

RECURSIVE SubPathList_noSkip(_)
\* A plausible slip: the test for an empty subpath left out.
SubPathList_noSkip(paths) ==
    IF paths = <<>> THEN <<>>
    ELSE <<"M">> \o PointList(Head(paths)) \o <<"z ">> \o SubPathList_noSkip(Tail(paths))

RECURSIVE SubPathList(_)
\* The loop over the subpaths in Path::toString.
SubPathList(paths) ==
    IF paths = <<>> THEN <<>>
    ELSE (IF Head(paths) = <<>> THEN <<>>
          ELSE <<"M">> \o PointList(Head(paths)) \o <<"z ">>)
         \o SubPathList(Tail(paths))

Path_toString(s) ==
    elemStart("path") \o <<"d=\"">> \o SubPathList(s.paths) \o <<"\" ">>
    \o <<"fill-rule=\"evenodd\" ">>
    \o Fill_toString(s.fill) \o Stroke_toString(s.stroke) \o emptyElemEnd

Path_offset(s, offset) ==
    [s EXCEPT !.paths = [k \in 1..Len(@) |->
                            [i \in 1..Len(@[k]) |-> Point_add(@[k][i], offset)]]]

\* What the read of paths.front().front() can give when the first subpath holds
\* no point: the vector has no element, so any value may be read.
GarbagePoints == {Point(0, 0), Point(0 - 99, 77)}

\* Path::MinMax.  paths.front().front() is evaluated whether or not the first
\* subpath holds a point; on an empty one the behaviour is undefined: the
\* process is killed, or some value is read.
Path_MinMax(s) ==
    IF s.paths = <<>> THEN {Returned(Rect_default)}
    ELSE IF Head(s.paths) = <<>>
         THEN {Crashed} \cup
              {Returned(IncludeAll(Rect_new(g, 0, 0), Concat(s.paths))) : g \in GarbagePoints}
         ELSE {Returned(IncludeAll(Rect_new(Head(Head(s.paths)), 0, 0), Concat(s.paths)))}

\* Text(origin, content, fill, font, stroke)
Text_new(origin, content, fill, font, stroke) ==
    [kind |-> "Text", fill |-> fill, stroke |-> stroke,
     origin |-> origin, content |-> content, font |-> font]

Text_toString(s) ==
    elemStart("text") \o attribute("x", StreamNum(s.origin.x), <<>>)
    \o attribute("y", StreamNum(s.origin.y), <<>>)
    \o Fill_toString(s.fill) \o Stroke_toString(s.stroke) \o Font_toString(s.font)
    \o <<">", s.content>> \o elemEnd("text")

Text_offset(s, offset) == [s EXCEPT !.origin = Point_add(@, offset)]

Text_MinMax(s) == Rect_new(s.origin, 0, 0)

\* The virtual calls of Shape.
Shape_toString(s) ==
    CASE s.kind = "Circle" -> Circle_toString(s)
      [] s.kind = "Elipse" -> Elipse_toString(s)
      [] s.kind = "Rectangle" -> Rectangle_toString(s)
      [] s.kind = "Line" -> Line_toString(s)
      [] s.kind = "Polygon" -> Polygon_toString(s)
      [] s.kind = "Polyline" -> Polyline_toString(s)
      [] s.kind = "Path" -> Path_toString(s)
      [] s.kind = "Text" -> Text_toString(s)

Shape_offset(s, offset) ==
    CASE s.kind = "Circle" -> Circle_offset(s, offset)
      [] s.kind = "Elipse" -> Elipse_offset(s, offset)
      [] s.kind = "Rectangle" -> Rectangle_offset(s, offset)
      [] s.kind = "Line" -> Line_offset(s, offset)
      [] s.kind = "Polygon" -> Polygon_offset(s, offset)
      [] s.kind = "Polyline" -> Polyline_offset(s, offset)
      [] s.kind = "Path" -> Path_offset(s, offset)
      [] s.kind = "Text" -> Text_offset(s, offset)

\* The outcomes of shape.MinMax(): one Rect, but for a Path whose first subpath is empty.
Shape_MinMax(s) ==
    CASE s.kind = "Circle" -> {Returned(Circle_MinMax(s))}
      [] s.kind = "Elipse" -> {Returned(Elipse_MinMax(s))}
      [] s.kind = "Rectangle" -> {Returned(Rectangle_MinMax(s))}
      [] s.kind = "Line" -> {Returned(Line_MinMax(s))}
      [] s.kind = "Polygon" -> {Returned(Polygon_MinMax(s))}
      [] s.kind = "Polyline" -> {Returned(Polyline_MinMax(s))}
      [] s.kind = "Path" -> Path_MinMax(s)
      [] s.kind = "Text" -> {Returned(Text_MinMax(s))}

\* shape << point, for the variants that have it.
Shape_append(s, point) ==
    CASE s.kind = "Polygon" -> Polygon_append(s, point)
      [] s.kind = "Polyline" -> Polyline_append(s, point)
      [] s.kind = "Path" -> Path_append(s, point)

-----------------------------------------------------------------------------
(* One Shape under its operations *)

\* The number of points appended to one shape.
MaxPts == 3
\* The number of offset() calls made on one shape.
MaxOffsets == 2

ShapePoints == {Point(0, 0), Point(10, 0), Point(10, 10)}
ShapeOffsets == {Point(2, 0 - 5)}

\* The fill and stroke a shape of the model is built with: the defaults, or both drawn.
ShapeStyles ==
    {<<Fill_new(Color_named("Transparent")), Stroke_default>>,
     <<Fill_new(Color_named("Red")), Stroke_new(1, Color_named("Blue"), FALSE)>>}

\* The shapes right after construction with fill st[1] and stroke st[2].
NewShapesStyled(st) ==
    {Circle_new(c, d, st[1], st[2]) : c \in ShapePoints, d \in {0, 4}}
    \cup {Elipse_new(c, 4, 2, st[1], st[2]) : c \in ShapePoints}
    \cup {Rectangle_new(e, wh[1], wh[2], st[1], st[2]) :
            e \in ShapePoints, wh \in {<<3, 2>>, <<0 - 2, 0>>}}
    \cup {Line_new(a, b, st[2]) : a \in ShapePoints, b \in ShapePoints}
    \cup {Polygon_new(st[1], st[2]), Polyline_new(<<>>, st[1], st[2]), Path_new(st[1], st[2])}
    \cup {Text_new(o, "hi", st[1], Font_new(12, "Verdana"), st[2]) : o \in ShapePoints}

NewShapes == UNION {NewShapesStyled(st) : st \in ShapeStyles}

HasPointList(s) == s.kind \in {"Polygon", "Polyline", "Path"}

\* The number of points a Polygon, Polyline or Path holds.
NumPoints(s) == IF s.kind = "Path" THEN Len(Concat(s.paths)) ELSE Len(s.points)

ShapeInit ==
    /\ shape \in NewShapes
    /\ ret = [op |-> "new"]
    /\ nOffsets = 0
    /\ RectIdle /\ DocIdle /\ LayoutIdle /\ StyleIdle

\* shape << point
ShapeAppend ==
    /\ ret.op # "crash"
    /\ HasPointList(shape)
    /\ NumPoints(shape) < MaxPts
    /\ \E p \in ShapePoints :
        /\ shape' = Shape_append(shape, p)
        /\ ret' = [op |-> "append", arg |-> p]
    /\ UNCHANGED <<nOffsets, rectVars, docVars, layoutVars, styleVars>>

\* path.startNewSubPath()
StartNewSubPath ==
    /\ ret.op # "crash"
    /\ shape.kind = "Path"
    /\ shape' = Path_startNewSubPath(shape)
    /\ ret' = [op |-> "startNewSubPath"]
    /\ UNCHANGED <<nOffsets, rectVars, docVars, layoutVars, styleVars>>

\* shape.offset(o)
ShapeOffset ==
    /\ ret.op # "crash"
    /\ nOffsets < MaxOffsets
    /\ \E o \in ShapeOffsets :
        /\ shape' = Shape_offset(shape, o)
        /\ ret' = [op |-> "offset", arg |-> o]
    /\ nOffsets' = nOffsets + 1
    /\ UNCHANGED <<rectVars, docVars, layoutVars, styleVars>>

\* shape.MinMax()
ShapeMinMax ==
    /\ ret.op # "crash"
    /\ \E r \in Shape_MinMax(shape) :
        ret' = IF r.crashed THEN [op |-> "crash"] ELSE [op |-> "MinMax", val |-> r.box]
    /\ UNCHANGED <<shape, nOffsets, rectVars, docVars, layoutVars, styleVars>>

\* shape.toString()
ShapeToString ==
    /\ ret.op # "crash"
    /\ ret' = [op |-> "toString", val |-> Shape_toString(shape)]
    /\ UNCHANGED <<shape, nOffsets, rectVars, docVars, layoutVars, styleVars>>

ShapeNext ==
    ShapeAppend \/ StartNewSubPath \/ ShapeOffset \/ ShapeMinMax \/ ShapeToString

SpecShape == ShapeInit /\ [][ShapeNext]_vars

\* Rect r moved by offset o: o added to both corners.
RectShifted(r, o) == [minPt |-> Point_add(r.minPt, o), maxPt |-> Point_add(r.maxPt, o)]

\* The offsets the claims about offset() are checked on.
TestOffsets == ShapeOffsets \cup {Point(0, 0), Point(0 - 10, 3)}

\* offset(o) and then MinMax() gives the MinMax() of before, moved by o.
OffsetMovesMinMax(s) ==
    \A o \in TestOffsets :
        Shape_MinMax(Shape_offset(s, o)) =
            {IF r.crashed THEN r ELSE Returned(RectShifted(r.box, o)) : r \in Shape_MinMax(s)}

\* C3 (as claimed): for every shape variant in every state its construction and
\* point appends reach, and every offset o, offset(o) followed by MinMax()
\* returns the MinMax() of before the call with o added to both corners.
C3_OffsetMovesMinMaxAlways == OffsetMovesMinMax(shape)

\* The shape holds a point MinMax() starts from: always, but for a Polygon,
\* Polyline or Path to which no point was appended.
HoldsPoint(s) == HasPointList(s) => NumPoints(s) > 0

\* C3 (amended): the same, for every shape that holds at least one point; a
\* Polygon or Polyline without points keeps the zero Rect at the origin under
\* every offset.
C3_OffsetMovesMinMax ==
    /\ HoldsPoint(shape) =>
          /\ OffsetMovesMinMax(shape)
          /\ \A r \in Shape_MinMax(shape) : ~r.crashed
    /\ (shape.kind \in {"Polygon", "Polyline"} /\ shape.points = <<>>) =>
          \A o \in TestOffsets :
              Shape_MinMax(Shape_offset(shape, o)) = {Returned(Rect_default)}

\* A Line with distinct end points was moved, and MinMax() called on it.
C3_Witness ==
    /\ shape.kind = "Line" /\ shape.start_point # shape.end_point
    /\ nOffsets > 0
    /\ ret.op = "MinMax"

\* A Path with two points was moved, and MinMax() called on it.
C3_WitnessPath ==
    /\ shape.kind = "Path" /\ NumPoints(shape) >= 2
    /\ nOffsets > 0
    /\ ret.op = "MinMax"

-----------------------------------------------------------------------------
(* Reading a d attribute back *)

DigitVal(c) == CHOOSE v \in 0..9 : DigitChar[v + 1] = c

RECURSIVE ParseNat(_)
ParseNat(ts) ==
    IF Len(ts) = 1 THEN DigitVal(ts[1])
    ELSE 10 * ParseNat(SubSeq(ts, 1, Len(ts) - 1)) + DigitVal(ts[Len(ts)])

ParseNum(ts) == IF Head(ts) = "-" THEN 0 - ParseNat(Tail(ts)) ELSE ParseNat(ts)

\* "x,y" read back as a point.
ParsePoint(ts) ==
    LET c == CHOOSE k \in 1..Len(ts) : ts[k] = ","
    IN  Point(ParseNum(SubSeq(ts, 1, c - 1)), ParseNum(SubSeq(ts, c + 1, Len(ts))))

RECURSIVE SplitAfter(_, _)
\* The pieces of ts that end at each token sep, without it (and what follows the last sep, if anything).
SplitAfter(ts, sep) ==
    IF ts = <<>> THEN <<>>
    ELSE LET ends == {k \in 1..Len(ts) : ts[k] = sep}
             k == IF ends = {} THEN Len(ts) + 1 ELSE SetMin(ends)
         IN  <<SubSeq(ts, 1, k - 1)>> \o SplitAfter(SubSeq(ts, k + 1, Len(ts)), sep)

\* The tokens of text t between the token d=" and the next closing quote.
DAttr(t) ==
    LET i == CHOOSE k \in 1..Len(t) : t[k] = "d=\""
        close == SetMin({k \in (i + 1)..Len(t) : t[k] = "\" "})
    IN  SubSeq(t, i + 1, close - 1)

\* The points of one segment, given the tokens between its M and its z.
SegmentPoints(ts) ==
    LET pieces == SplitAfter(ts, " ") IN [k \in 1..Len(pieces) |-> ParsePoint(pieces[k])]

NonEmptySubPaths(paths) == SelectSeq(paths, LAMBDA sp : sp # <<>>)

CountOf(ts, tok) == Cardinality({k \in 1..Len(ts) : ts[k] = tok})

\* C6: inside the d attribute Path::toString writes one segment per non-empty
\* subpath, in subpath order: M, the subpath's points in insertion order, then
\* z; empty subpaths contribute nothing.
C6_OneSegmentPerNonEmptySubPath ==
    (shape.kind = "Path" /\ ret.op = "toString") =>
        LET d == DAttr(ret.val)
            segs == SplitAfter(d, "z ")
            want == NonEmptySubPaths(shape.paths)
        IN  /\ CountOf(ret.val, "d=\"") = 1
            /\ d # <<>> => Last(d) = "z "
            /\ CountOf(d, "M") = Len(want)
            /\ CountOf(d, "z ") = Len(want)
            /\ Len(segs) = Len(want)
            /\ \A k \in 1..Len(segs) :
                  /\ Head(segs[k]) = "M"
                  /\ SegmentPoints(Tail(segs[k])) = want[k]
            /\ shape.paths = <<<<Point(0, 0), Point(10, 0), Point(10, 10)>>>> =>
                  d = <<"M", "0", ",", "0", " ", "1", "0", ",", "0", " ",
                        "1", "0", ",", "1", "0", " ", "z ">>

\* A Path of two non-empty subpaths and an empty last one was serialized,
\* after an offset that made a coordinate negative.
C6_Witness ==
    /\ shape.kind = "Path" /\ ret.op = "toString"
    /\ Len(shape.paths) = 3
    /\ shape.paths[3] = <<>>
    /\ \E k \in 1..2 : \E i \in 1..Len(shape.paths[k]) : shape.paths[k][i].y < 0

\* The Path (0,0),(10,0),(10,10) was serialized.
C6_WitnessExample ==
    /\ shape.kind = "Path" /\ ret.op = "toString"
    /\ shape.paths = <<<<Point(0, 0), Point(10, 0), Point(10, 10)>>>>

\* No subpath list is empty, and no subpath but the last is.
PathShape ==
    shape.kind = "Path" =>
        /\ shape.paths # <<>>
        /\ \A k \in 1..(Len(shape.paths) - 1) : shape.paths[k] # <<>>

\* What one call does to the subpaths of a Path.
PathStep ==
    shape.kind = "Path" =>
        /\ ret'.op = "startNewSubPath" =>
              shape'.paths = IF Last(shape.paths) # <<>> THEN Append(shape.paths, <<>>)
                             ELSE shape.paths
        /\ ret'.op = "append" =>
              /\ Len(shape'.paths) = Len(shape.paths)
              /\ Last(shape'.paths) = Append(Last(shape.paths), ret'.arg)
              /\ \A k \in 1..(Len(shape.paths) - 1) : shape'.paths[k] = shape.paths[k]

\* C10: after construction and any point appends and startNewSubPath calls the
\* subpath list of a Path is never empty and only its last subpath can be
\* empty; startNewSubPath adds a subpath only when the last one is non-empty;
\* an appended point lands at the end of the last subpath, the earlier ones
\* unchanged.
C10_PathSubPaths == []PathShape /\ [][PathStep]_vars

\* startNewSubPath() was called on a Path whose last subpath was empty already.
C10_Witness ==
    /\ shape.kind = "Path" /\ ret.op = "startNewSubPath"
    /\ Len(shape.paths) = 2 /\ Len(shape.paths[1]) = 2 /\ shape.paths[2] = <<>>

-----------------------------------------------------------------------------
(* Document *)

\* Document(file_name, layout): region is Rect(), body_nodes_str is empty.
Document_new(file_name, l) ==
    [file_name |-> file_name, layout |-> l, body_nodes_str |-> <<>>, region |-> Rect_default]

\* The first statement of Document::operator<<: body_nodes_str += shape.toString().
Document_appendBody(d, s) == [d EXCEPT !.body_nodes_str = @ \o Shape_toString(s)]

\* A plausible slip: region assigned the shape's box.
Document_includeBox_assign(d, box) == [d EXCEPT !.region = box]

\* The second statement of Document::operator<<: region.include(shape.MinMax()).
Document_includeBox(d, box) == [d EXCEPT !.region = Rect_includeRect(@, box)]

Document_toString(d) ==
    <<"<?xml ">> \o attribute("version", <<"1.0">>, <<>>)
    \o attribute("standalone", <<"no">>, <<>>)
    \o <<"?>\n<!DOCTYPE svg PUBLIC \"-//W3C//DTD SVG 1.1//EN\" ",
         "\"http://www.w3.org/Graphics/SVG/1.1/DTD/svg11.dtd\">\n<svg ">>
    \o attribute("width", StreamNum(Rect_width(d.region)), <<"px">>)
    \o attribute("height", StreamNum(Rect_height(d.region)), <<"px">>)
    \o attribute("xmlns", <<"http://www.w3.org/2000/svg">>, <<>>)
    \o attribute("viewBox",
                 to_string(d.region.minPt.x) \o <<" ">> \o to_string(d.region.minPt.y)
                 \o <<" ">> \o to_string(Rect_width(d.region)) \o <<" ">>
                 \o to_string(Rect_height(d.region)), <<>>)
    \o attribute("version", <<"1.1">>, <<>>) \o <<">\n">>
    \o d.body_nodes_str \o elemEnd("svg")

\* The number of shapes appended to one Document.
MaxAppends == 2

DocLayouts == {Layout_default, Layout_new(Dimensions(7, 7), "TopRight", 2, Point(2, 0 - 5))}

RedFill == Fill_new(Color_named("Red"))
NoFill == Fill_new(Color_named("Transparent"))
BlueStroke == Stroke_new(1, Color_named("Blue"), FALSE)

\* The shapes handed to a Document, built by the constructors and the append operations.
DocShapes ==
    {Circle_new(Point(10, 10), 4, RedFill, Stroke_default),
     Rectangle_new(Point(0 - 3, 7), 0 - 2, 5, NoFill, BlueStroke),
     Line_new(Point(10, 0), Point(0 - 4, 0 - 6), BlueStroke),
     Polygon_new(RedFill, Stroke_default),
     Polygon_append(Polygon_append(Polygon_append(Polygon_new(RedFill, BlueStroke),
         Point(3, 3)), Point(10, 3)), Point(10, 12)),
     Path_new(NoFill, BlueStroke),
     Path_append(Path_startNewSubPath(Path_append(Path_append(Path_new(RedFill, Stroke_default),
         Point(0 - 9, 2)), Point(0 - 7, 2))), Point(0 - 8, 20)),
     Text_new(Point(0 - 8, 0 - 8), "hi", RedFill, Font_new(12, "Verdana"), Stroke_default)}

DocInit ==
    /\ \E l \in DocLayouts : \E l2 \in DocLayouts \ {l} :
        /\ doc = Document_new("out.svg", l)
        /\ twin = Document_new("twin.svg", l2)
    /\ appended = <<>>
    /\ docOp = [op |-> "new"]
    /\ out = [at |-> 0 - 1, text |-> <<>>]
    /\ file = [written |-> FALSE, text |-> <<>>]
    /\ alive = TRUE
    /\ RectIdle /\ ShapeIdle /\ LayoutIdle /\ StyleIdle

\* Document::operator<<.  The fragment is appended first; MinMax() then returns
\* the box folded into region, or kills the process.
Document_append(d, s, r) ==
    IF r.crashed THEN Document_appendBody(d, s)
    ELSE Document_includeBox(Document_appendBody(d, s), r.box)

\* doc << shape; twin << shape.  Each append makes its own MinMax() call; the
\* second one is not reached when the first kills the process.
DocAppend ==
    /\ alive
    /\ Len(appended) < MaxAppends
    /\ \E s \in DocShapes : \E r \in Shape_MinMax(s) :
        \E r2 \in (IF r.crashed THEN {r} ELSE Shape_MinMax(s)) :
            /\ doc' = Document_append(doc, s, r)
            /\ twin' = IF r.crashed THEN twin ELSE Document_append(twin, s, r2)
            /\ appended' = Append(appended, [shape |-> s, outcome |-> r, twinOutcome |-> r2])
            /\ alive' = (~r.crashed /\ ~r2.crashed)
    /\ docOp' = [op |-> "append"]
    /\ UNCHANGED <<out, file, rectVars, shapeVars, layoutVars, styleVars>>

\* A plausible slip: the body handed out and cleared, as a stream would be drained.
DocToString_draining ==
    /\ alive
    /\ out' = [at |-> Len(appended), text |-> Document_toString(doc)]
    /\ doc' = [doc EXCEPT !.body_nodes_str = <<>>]
    /\ docOp' = [op |-> "toString"]
    /\ UNCHANGED <<twin, appended, file, alive, rectVars, shapeVars, layoutVars, styleVars>>

\* doc.toString(), a const member function.
DocToString ==
    /\ alive
    /\ out' = [at |-> Len(appended), text |-> Document_toString(doc)]
    /\ docOp' = [op |-> "toString"]
    /\ UNCHANGED <<doc, twin, appended, file, alive, rectVars, shapeVars, layoutVars, styleVars>>

\* doc.save(), a const member function: false when the file cannot be opened,
\* else the file holds toString().
DocSave ==
    /\ alive
    /\ \E good \in BOOLEAN :
        /\ file' = IF good THEN [written |-> TRUE, text |-> Document_toString(doc)] ELSE file
        /\ docOp' = [op |-> "save", val |-> good]
    /\ UNCHANGED <<doc, twin, appended, out, alive, rectVars, shapeVars, layoutVars, styleVars>>

DocNext == DocAppend \/ DocToString \/ DocSave

Spec == DocInit /\ [][DocNext]_vars

\* The corners of the boxes MinMax() returned for the shapes of history h.
BoxCorners(h) ==
    UNION {{h[i].outcome.box.minPt, h[i].outcome.box.maxPt} : i \in 1..Len(h)}

\* The smallest Rect that covers the boxes of history h, and nothing else.
UnionOfBoxes(h) ==
    LET xs == {c.x : c \in BoxCorners(h)}
        ys == {c.y : c \in BoxCorners(h)}
    IN  [minPt |-> Point(SetMin(xs), SetMin(ys)), maxPt |-> Point(SetMax(xs), SetMax(ys))]

\* C1 (as claimed): after a non-empty sequence of appends to a fresh Document,
\* region is the union of the appended shapes' bounding boxes: the smallest
\* Rect covering exactly those boxes.
C1_RegionIsUnionOfBoxes ==
    (alive /\ appended # <<>>) => doc.region = UnionOfBoxes(appended)

\* What toString() and save() leave alone, and what a repeated toString() returns.
ToStringStep ==
    /\ docOp'.op \in {"toString", "save"} =>
          /\ doc'.body_nodes_str = doc.body_nodes_str
          /\ doc'.region = doc.region
    /\ (docOp'.op = "toString" /\ out.at = Len(appended)) => out'.text = out.text
    /\ (docOp'.op = "toString" /\ file.written /\ file.text = Document_toString(doc)) =>
          out'.text = file.text

\* C4: toString() and save() never change the Document: body text and region
\* stay as they are, so two toString() calls with no append between them
\* return the same text.
C4_ToStringKeepsState == [][ToStringStep]_vars

\* toString() was called after two appends and a save() of the same state.
C4_Witness ==
    /\ docOp.op = "toString" /\ Len(appended) = 2 /\ alive
    /\ out.at = 2
    /\ file.written /\ file.text = out.text

IsPrefix(a, b) == Len(a) <= Len(b) /\ SubSeq(b, 1, Len(a)) = a

\* Rect outer covers both corners of Rect inner.
RectContains(outer, inner) ==
    /\ outer.minPt.x <= inner.minPt.x /\ outer.minPt.y <= inner.minPt.y
    /\ outer.maxPt.x >= inner.maxPt.x /\ outer.maxPt.y >= inner.maxPt.y

\* The body is the fragments of the appended shapes, in append order.
BodyIsLog ==
    doc.body_nodes_str =
        Concat([i \in 1..Len(appended) |-> Shape_toString(appended[i].shape)])

\* Every step keeps the body as a prefix and region covered; an append adds
\* the shape's fragment at the end.
LogStep ==
    /\ IsPrefix(doc.body_nodes_str, doc'.body_nodes_str)
    /\ RectContains(doc'.region, doc.region)
    /\ appended' # appended =>
          /\ docOp'.op = "append"
          /\ Len(appended') = Len(appended) + 1
          /\ doc'.body_nodes_str =
                doc.body_nodes_str \o Shape_toString(Last(appended').shape)
          /\ alive' => RectContains(doc'.region, Last(appended').outcome.box)

\* C8: a Document is an append-only log: region starts as the zero Rect with
\* an empty body; every append extends the body by the appended shape's
\* fragment at the end and replaces region by a Rect that contains the previous
\* one; nothing shrinks region or removes body text.
C8_AppendOnlyLog ==
    /\ (doc.body_nodes_str = <<>> /\ doc.region = Rect_default)
    /\ []BodyIsLog
    /\ [][LogStep]_vars

\* Two different shapes were appended and both corners of region moved.
C8_Witness ==
    /\ alive /\ docOp.op = "append" /\ Len(appended) = 2
    /\ appended[1].shape # appended[2].shape
    /\ doc.region.minPt # Point(0, 0) /\ doc.region.maxPt # Point(0, 0)
    /\ Len(doc.body_nodes_str) > Len(Shape_toString(appended[1].shape))

\* The Document half of C5: region is the fold of include(Rect) over the boxes
\* MinMax() returned, taken in any order.
C5_RegionOrderIndependent ==
    alive =>
        \A f \in Perms(Len(appended)) :
            FoldInclude(Rect_default,
                        [i \in 1..Len(appended) |-> appended[f[i]].outcome.box]) = doc.region

-----------------------------------------------------------------------------
(* Further properties of Rect, Path and Fill *)

\* C11: a Rect built by any constructor, negative extents included, has
\* minPt.x <= maxPt.x and minPt.y <= maxPt.y after at least one include() call
\* and after every further one; a default-constructed Rect has minPt = maxPt.
C11_MinBelowMaxOnceIncluded ==
    /\ included # <<>> =>
          /\ rect.minPt.x <= rect.maxPt.x
          /\ rect.minPt.y <= rect.maxPt.y
    /\ (rectStart = Rect_default /\ included = <<>>) => rect.minPt = rect.maxPt

\* A Rect constructed with minPt beyond maxPt on both axes, after two include() calls.
C11_Witness ==
    /\ rectStart.minPt.x > rectStart.maxPt.x
    /\ rectStart.minPt.y > rectStart.maxPt.y
    /\ Len(included) >= 2
    /\ \E i \in 1..Len(included) : ~IsPoint(included[i])

\* C12 (as claimed): MinMax() on a Path to which no point was ever added ends
\* in the absent-value failure and never returns a rectangle.
C12_EmptyPathMinMaxFails ==
    ~(shape.kind = "Path" /\ NumPoints(shape) = 0 /\ ret.op = "MinMax")

C13_ShapeCarriesFill ==
    ret.op = "toString" =>
        IF shape.kind = "Line" THEN AttrStarts(ret.val, "fill") = {}
        ELSE HasAttr(ret.val, "fill", Color_toString(shape.fill.color))

-----------------------------------------------------------------------------
(* Further properties of Document *)

\* The part of toString() that follows the fixed preamble is the same text.
SameOutput(d, e) ==
    /\ d.region = e.region
    /\ d.body_nodes_str = e.body_nodes_str
    /\ Document_toString(d) = Document_toString(e)

\* C14 (as claimed): two Documents constructed with different Layouts and fed
\* the same sequence of appends have equal region and equal toString() text
\* after every step.
C14_LayoutHasNoInfluence ==
    (alive /\ doc.layout # twin.layout) => SameOutput(doc, twin)

\* Every appended shape held a point for MinMax() to start from.
AllBoxesDefined == \A i \in 1..Len(appended) : HoldsPoint(appended[i].shape)

\* C14, without a point-less Path among the appended shapes.
C14_LayoutHasNoInfluenceDefined ==
    (alive /\ AllBoxesDefined /\ doc.layout # twin.layout) => SameOutput(doc, twin)

\* The viewBox value toString() writes for region r.
ViewBox(r) ==
    to_string(r.minPt.x) \o <<" ">> \o to_string(r.minPt.y) \o <<" ">>
    \o to_string(r.maxPt.x - r.minPt.x) \o <<" ">> \o to_string(r.maxPt.y - r.minPt.y)

\* The opening svg tag of a document text: everything up to the first tag close.
SvgTag(t) ==
    LET close == CHOOSE k \in 1..Len(t) : t[k] = ">\n" /\ \A m \in 1..(k - 1) : t[m] # ">\n"
    IN  SubSeq(t, 1, close)

\* C15: in every state reached by appending shapes region contains the origin,
\* so the width, height and viewBox toString() writes span the point (0,0),
\* also when no appended shape's box touches it.
C15_RegionContainsOrigin ==
    /\ doc.region.minPt.x <= 0 /\ 0 <= doc.region.maxPt.x
    /\ doc.region.minPt.y <= 0 /\ 0 <= doc.region.maxPt.y
    /\ (docOp.op = "toString" /\ out.at = Len(appended)) =>
          /\ HasAttr(SvgTag(out.text), "viewBox", ViewBox(doc.region))
          /\ HasAttr(SvgTag(out.text), "width",
                     StreamNum(doc.region.maxPt.x - doc.region.minPt.x) \o <<"px">>)
          /\ HasAttr(SvgTag(out.text), "height",
                     StreamNum(doc.region.maxPt.y - doc.region.minPt.y) \o <<"px">>)

\* The box lies strictly on one side of the origin on both axes.
AwayFromOrigin(b) ==
    /\ (b.minPt.x > 0 /\ b.maxPt.x > 0) \/ (b.minPt.x < 0 /\ b.maxPt.x < 0)
    /\ (b.minPt.y > 0 /\ b.maxPt.y > 0) \/ (b.minPt.y < 0 /\ b.maxPt.y < 0)

\* toString() was called after appends of shapes whose boxes all lie away from the origin.
C15_Witness ==
    /\ alive /\ docOp.op = "toString" /\ appended # <<>>
    /\ \A i \in 1..Len(appended) : AwayFromOrigin(appended[i].outcome.box)

====
